---- MODULE Spec2Model ----
\* Model of the data-driven parametrization hook pytest_generate_tests of
\* src/test/gamma/conftest.py: selection of the JSON test-data file, loading,
\* the class/function match, expansion (itertools.product / zip), exclusion
\* and the call of metafunc.parametrize.
EXTENDS Integers, Sequences, FiniteSets, TLC

VARIABLES
    fs,                    \* which candidate data files exist in module_path
    metafunc,              \* the Metafunc helper: cls (or None) and function
    pc,                    \* position of the hook invocation
    test_data_path,        \* local test_data_path
    file_content,          \* what the opened file held when it was read
    data,                  \* local data (the parsed JSON document)
    function_data,         \* local function_data
    expanded_value_list,   \* argument_value_list after the match statement
    exclude_value_list,    \* local exclude_value_list
    argument_value_list,   \* argument_value_list as handed to parametrize
    parametrize_calls,     \* calls of metafunc.parametrize, in order
    outcome,               \* how the invocation ended
    opened_files,          \* the paths handed to open(), in order
    file,                  \* the file object bound by the with statement
    mathematics            \* a Mathematics instance and its last call

\* The variables of the hook pytest_generate_tests.
hook_vars == <<fs, metafunc, pc, test_data_path, file_content, data,
               function_data, expanded_value_list, exclude_value_list,
               argument_value_list, parametrize_calls, outcome, opened_files,
               file>>

vars == <<fs, metafunc, pc, test_data_path, file_content, data, function_data,
          expanded_value_list, exclude_value_list, argument_value_list,
          parametrize_calls, outcome, opened_files, file, mathematics>>

-----------------------------------------------------------------------------
\* Bounds of the model

\* Longest argument value list of a spec.
MaxLen == 2

\* The literal values of the argument lists.
Values == {1, 2}

\* The argument names a spec may use, in the order of the JSON object.
ArgNames == <<"x", "y">>

\* The strategy strings found in a spec.
Strategies == {"product", "zip", "bogus"}

\* The strategy strings found in an exclude entry.
ExcludeStrategies == {"product", "zip"}

\* Largest magnitude of a number handed to Mathematics.
MaxNumber == 5

-----------------------------------------------------------------------------
\* Values of the program

\* None, for the names and paths; Unbound, for a local not yet assigned.
None == "None"
Unbound == [unbound |-> TRUE]

\* File content json.load cannot parse.
Malformed == [malformed |-> TRUE]

module_name == "test_module"
ClassName == "TestClass"
FunctionName == "test_function"

ModuleFile == "test_module.json"
DataFile == "data.json"

\* A JSON object is a function from its keys; `key in obj` is key \in DOMAIN obj.
\* An ordered JSON object of argument lists is [names, values]: keys() and
\* values() in insertion order.
ValueLists == UNION {[1..n -> Values] : n \in 0..MaxLen}

Maps(lists) ==
    UNION {{[names |-> SubSeq(ArgNames, 1, n), values |-> v] :
                v \in [1..n -> lists]} : n \in 0..Len(ArgNames)}

ArgumentMaps == Maps(ValueLists)

\* The lists of an exclude entry name each value once, in ascending order.
ExcludeLists ==
    {l \in UNION {[1..n -> Values] : n \in 0..Cardinality(Values)} :
        \A i, j \in DOMAIN l : i < j => l[i] < l[j]}

ExcludeMaps == Maps(ExcludeLists)

ExcludeEntries ==
    {[strategy |-> s, data |-> a] : s \in ExcludeStrategies, a \in ExcludeMaps}

\* Exclude entries whose one key is no argument name of any spec.
OtherNames == <<"z">>

RenamedExcludeEntries ==
    {[strategy |-> s, data |-> [names |-> OtherNames, values |-> <<l>>]] :
        s \in ExcludeStrategies, l \in ExcludeLists}

\* Exclude entries lacking one of the two keys.
PartialExcludeEntries ==
    {[strategy |-> s] : s \in ExcludeStrategies}
        \cup {[data |-> a] : a \in ExcludeMaps}

Range(s) == {s[i] : i \in DOMAIN s}

-----------------------------------------------------------------------------
\* The length of the shortest list.
MinLen(lists) ==
    CHOOSE n \in {Len(lists[j]) : j \in DOMAIN lists} :
        \A j \in DOMAIN lists : n <= Len(lists[j])

\* A zip that stops one row early.
zip_short(lists) ==
    IF lists = <<>> THEN <<>>
    ELSE [i \in 1..(MinLen(lists) - 1) |->
              [j \in 1..Len(lists) |-> lists[j][i]]]

\* A zip that runs to the longest list and fills the gaps with 0.
zip_fill(lists) ==
    IF lists = <<>> THEN <<>>
    ELSE LET longest ==
                 CHOOSE n \in {Len(lists[j]) : j \in DOMAIN lists} :
                     \A j \in DOMAIN lists : n >= Len(lists[j])
         IN  [i \in 1..longest |->
                 [j \in 1..Len(lists) |->
                     IF i <= Len(lists[j]) THEN lists[j][i] ELSE 0]]

\* zip(*iterables): stops at the shortest; no iterable gives nothing.
zip(lists) ==
    IF lists = <<>> THEN <<>>
    ELSE [i \in 1..MinLen(lists) |-> [j \in 1..Len(lists) |-> lists[j][i]]]

\* A product step that takes each value of the pool once, as of a set.
ProductStep_unique(result, pool) ==
    LET first == {i \in DOMAIN pool : \A j \in 1..(i - 1) : pool[j] # pool[i]}
        nth(k) == CHOOSE i \in first : Cardinality({j \in first : j <= i}) = k
        unique == [k \in 1..Cardinality(first) |-> pool[nth(k)]]
    IN  [k \in 1..(Len(result) * Len(unique)) |->
            Append(result[((k - 1) \div Len(unique)) + 1],
                   unique[((k - 1) % Len(unique)) + 1])]

\* A product step whose left-most argument varies fastest.
ProductStep_leftfast(result, pool) ==
    [k \in 1..(Len(result) * Len(pool)) |->
        Append(result[((k - 1) % Len(result)) + 1],
               pool[((k - 1) \div Len(result)) + 1])]

\* itertools.product(*pools): result = [[]]; for each pool,
\* result = [x + [y] for x in result for y in pool].
ProductStep(result, pool) ==
    [k \in 1..(Len(result) * Len(pool)) |->
        Append(result[((k - 1) \div Len(pool)) + 1],
               pool[((k - 1) % Len(pool)) + 1])]

RECURSIVE ProductFrom(_, _)
ProductFrom(result, pools) ==
    IF pools = <<>> THEN result
    ELSE ProductFrom(ProductStep(result, Head(pools)), Tail(pools))

\* A product that gives nothing for no pools.
product_of_some(pools) ==
    IF pools = <<>> THEN <<>> ELSE ProductFrom(<< <<>> >>, pools)

product(pools) == ProductFrom(<< <<>> >>, pools)

\* A dispatch that zips only for the strategy "zip".
Expand_only_zip(strategy, lists) ==
    IF strategy = "zip" THEN zip(lists) ELSE product(lists)

\* match strategy: case "product" | case _
Expand(strategy, lists) ==
    IF strategy = "product" THEN product(lists) ELSE zip(lists)

\* An exclude dispatch that pairs the lists for any strategy but "product".
ExpandExclude_own_strategy(exclude_strategy, lists) ==
    IF exclude_strategy = "product" THEN product(lists) ELSE zip(lists)

\* match exclude_strategy: both cases build the cartesian product
ExpandExclude(exclude_strategy, lists) ==
    IF exclude_strategy = "product" THEN product(lists) ELSE product(lists)

\* An exclusion by equality of the tuples, position by position.
Excluded_positional(argument_value, exclude_list) ==
    \E k \in DOMAIN exclude_list : exclude_list[k] = argument_value

\* An exclusion that matches each excluded value at its own position.
Excluded_by_position(argument_value, exclude_list) ==
    \E k \in DOMAIN exclude_list :
        \A q \in DOMAIN exclude_list[k] :
            /\ q \in DOMAIN argument_value
            /\ argument_value[q] = exclude_list[k][q]

\* set(exclude_value).issubset(set(argument_value)) for some exclude_value
Excluded(argument_value, exclude_list) ==
    \E k \in DOMAIN exclude_list :
        Range(exclude_list[k]) \subseteq Range(argument_value)

\* A filter that hands back the survivors in reverse order.
RemoveExcluded_reversed(value_list, exclude_list) ==
    LET kept == SelectSeq(value_list, LAMBDA t : ~Excluded(t, exclude_list))
    IN  [i \in 1..Len(kept) |-> kept[Len(kept) + 1 - i]]

\* A filter that keeps the first copy only of equal survivors.
RemoveExcluded_distinct(value_list, exclude_list) ==
    LET kept == SelectSeq(value_list, LAMBDA t : ~Excluded(t, exclude_list))
        first == {i \in DOMAIN kept :
                     \A j \in 1..(i - 1) : kept[j] # kept[i]}
        nth(k) == CHOOSE i \in first : Cardinality({j \in first : j <= i}) = k
    IN  [k \in 1..Cardinality(first) |-> kept[nth(k)]]

\* A filter in which a second matching excluded tuple brings a row back.
RemoveExcluded_parity(value_list, exclude_list) ==
    SelectSeq(value_list,
              LAMBDA t :
                  Cardinality({k \in DOMAIN exclude_list :
                                  Range(exclude_list[k]) \subseteq Range(t)})
                      % 2 = 0)

\* Lines 695-702: the rows no excluded tuple matches, in their order.
RemoveExcluded(value_list, exclude_list) ==
    SelectSeq(value_list, LAMBDA t : ~Excluded(t, exclude_list))

-----------------------------------------------------------------------------
\* The test data a file may hold

EmptyObject == <<>>

Specs == {[data |-> a, strategy |-> s] : a \in ArgumentMaps, s \in Strategies}

SpecsWithExclude ==
    {[data |-> f.data, strategy |-> f.strategy, exclude |-> e] :
        f \in Specs, e \in ExcludeEntries}

SpecsWithRenamedExclude ==
    {[data |-> f.data, strategy |-> f.strategy, exclude |-> e] :
        f \in Specs, e \in RenamedExcludeEntries}

SpecsWithPartialExclude ==
    {[data |-> f.data, strategy |-> f.strategy, exclude |-> e] :
        f \in Specs, e \in PartialExcludeEntries}

\* Specs lacking the strategy key or the data key.
SpecsWithoutStrategy == {[data |-> a] : a \in ArgumentMaps}
SpecsWithoutData == {[strategy |-> s] : s \in Strategies}

\* {module_name: {ClassName: {function_name: spec}}}
ClassDocument(f) == module_name :> (ClassName :> (FunctionName :> f))

\* {module_name: {function_name: spec}}
FunctionDocument(f) == module_name :> (FunctionName :> f)

\* Documents lacking the module, the class or the function entry.
MismatchDocuments ==
    { EmptyObject,
      "other_module" :> EmptyObject,
      module_name :> EmptyObject,
      module_name :> ("OtherClass" :> EmptyObject),
      module_name :> (ClassName :> EmptyObject),
      module_name :> (ClassName :> ("other_function" :> EmptyObject)) }

Metafuncs == {[cls |-> c, function |-> FunctionName] : c \in {None, ClassName}}

FileSystems == [{ModuleFile, DataFile} -> BOOLEAN]

Running == [kind |-> "running", detail |-> ""]
Return == [kind |-> "return", detail |-> ""]
Skip(reason) == [kind |-> "skip", detail |-> reason]
Raise(error) == [kind |-> "raise", detail |-> error]

\* Mathematics.__init__ sets no attribute; no method has been called.
Constructed ==
    [method |-> "__init__", first_number |-> 0, second_number |-> 0,
     result |-> None, attributes |-> EmptyObject]

-----------------------------------------------------------------------------
Init ==
    /\ fs \in FileSystems
    /\ metafunc \in Metafuncs
    /\ pc = "start"
    /\ test_data_path = None
    /\ file_content = Unbound
    /\ data = Unbound
    /\ function_data = Unbound
    /\ expanded_value_list = <<>>
    /\ exclude_value_list = <<>>
    /\ argument_value_list = <<>>
    /\ parametrize_calls = <<>>
    /\ outcome = Running
    /\ opened_files = <<>>
    /\ file = Unbound
    /\ mathematics = Constructed

\* A selection that prefers data.json to the per-module file.
SelectTestDataPath_shared_first ==
    /\ pc \in {"start", "next"}
    /\ test_data_path' =
          IF fs[DataFile] THEN DataFile
          ELSE IF fs[ModuleFile] THEN ModuleFile
          ELSE None
    /\ pc' = "selected"
    /\ UNCHANGED <<fs, metafunc, file_content, data, function_data,
                   expanded_value_list, exclude_value_list,
                   argument_value_list, parametrize_calls, outcome,
                   opened_files, file, mathematics>>

\* Lines 601-607: choose the per-module file, else data.json, else None.
SelectTestDataPath ==
    /\ pc \in {"start", "next"}
    /\ test_data_path' =
          IF fs[ModuleFile] THEN ModuleFile
          ELSE IF fs[DataFile] THEN DataFile
          ELSE None
    /\ pc' = "selected"
    /\ UNCHANGED <<fs, metafunc, file_content, data, function_data,
                   expanded_value_list, exclude_value_list,
                   argument_value_list, parametrize_calls, outcome,
                   opened_files, file, mathematics>>

\* The environment removes a candidate file after the existence check.
RemoveFile ==
    /\ pc = "selected"
    /\ \E f \in {ModuleFile, DataFile} :
          /\ fs[f]
          /\ fs' = [fs EXCEPT ![f] = FALSE]
    /\ UNCHANGED <<metafunc, pc, test_data_path, file_content, data,
                   function_data, expanded_value_list, exclude_value_list,
                   argument_value_list, parametrize_calls, outcome,
                   opened_files, file, mathematics>>

\* The hook ends: by return, by pytest.skip or by an exception.
Finish(result) ==
    /\ pc' = "done"
    /\ outcome' = result

\* Lines 614-621: the except clauses; any other exception leaves the hook.
SkipReason(error) ==
    IF error = "FileNotFoundError" THEN "Skip No Test Data Found"
    ELSE "Skip No Test Data Path Set"

\* A try statement without except clauses.
Except_uncaught(error) == Finish(Raise(error))

Except(error) ==
    IF error \in {"FileNotFoundError", "TypeError"}
    THEN Finish(Skip(SkipReason(error)))
    ELSE Finish(Raise(error))

\* An open that reads data.json as well after the per-module file.
Open_with_shared ==
    opened_files' =
        IF test_data_path = ModuleFile /\ fs[DataFile]
        THEN opened_files \o <<ModuleFile, DataFile>>
        ELSE Append(opened_files, test_data_path)

\* Line 612: open(test_data_path, "r").
Open == opened_files' = Append(opened_files, test_data_path)

\* Line 612: open() finds no file.
OpenFails ==
    /\ Open
    /\ file' = file
    /\ Except("FileNotFoundError")

\* Lines 610-617: without a path the hook is over; else the with statement
\* opens the selected file and binds the file object.
OpenTestData ==
    /\ pc = "selected"
    /\ \/ /\ test_data_path = None
          /\ Finish(Return)
          /\ UNCHANGED <<opened_files, file>>
       \/ /\ test_data_path # None
          /\ ~fs[test_data_path]
          /\ OpenFails
       \/ /\ test_data_path # None
          /\ fs[test_data_path]
          /\ Open
          /\ file' = [closed |-> FALSE]
          /\ pc' = "opened"
          /\ outcome' = outcome
    /\ UNCHANGED <<fs, metafunc, test_data_path, file_content, data,
                   function_data, expanded_value_list, exclude_value_list,
                   argument_value_list, parametrize_calls, mathematics>>

\* A with statement that leaves the file open.
Close_never == file' = file

\* Line 612: the with statement closes the file when its body is left, by
\* its end or by an exception.
Close == file' = [closed |-> TRUE]

\* Line 613: json.load cannot parse what the file holds.
ParseFails ==
    /\ file_content' = Malformed
    /\ data' = data
    /\ Close
    /\ Except("JSONDecodeError")

\* Line 613: json.load returns the document the file holds.
Parse(document) ==
    /\ file_content' = document
    /\ data' = document
    /\ Close
    /\ pc' = "loaded"
    /\ outcome' = outcome

\* Lines 612-613: the body of the with statement reads and parses the open
\* file.
LoadTestData ==
    /\ pc = "opened"
    /\ \/ ParseFails
       \/ \E f \in Specs : Parse(ClassDocument(f))
       \/ \E f \in SpecsWithExclude : Parse(ClassDocument(f))
       \/ \E f \in SpecsWithRenamedExclude : Parse(ClassDocument(f))
       \/ \E f \in SpecsWithPartialExclude : Parse(ClassDocument(f))
       \/ \E f \in SpecsWithoutStrategy : Parse(ClassDocument(f))
       \/ \E f \in SpecsWithoutData : Parse(ClassDocument(f))
       \/ \E f \in Specs : Parse(FunctionDocument(f))
       \/ \E d \in MismatchDocuments : Parse(d)
    /\ UNCHANGED <<fs, metafunc, test_data_path, function_data,
                   expanded_value_list, exclude_value_list,
                   argument_value_list, parametrize_calls, opened_files,
                   mathematics>>

\* Lines 623-633: the list class_condition is built eagerly, so each
\* subscript is evaluated whenever metafunc.cls is set.
ClassConditionRaises(d, mf) ==
    /\ mf.cls # None
    /\ \/ module_name \notin DOMAIN d
       \/ mf.cls \notin DOMAIN d[module_name]

class_condition(d, mf) ==
    << module_name \in DOMAIN d,
       IF mf.cls # None THEN mf.cls \in DOMAIN d[module_name] ELSE FALSE,
       IF mf.cls # None
           THEN mf.function \in DOMAIN d[module_name][mf.cls]
           ELSE FALSE >>

all(conditions) == \A i \in DOMAIN conditions : conditions[i]

\* Lines 672-677: the exclude entry is used only with both of its keys.
HasExclude(f) ==
    /\ "exclude" \in DOMAIN f
    /\ "strategy" \in DOMAIN f.exclude
    /\ "data" \in DOMAIN f.exclude

\* An exclude that is dropped unless its names are argument names of the spec.
ExcludeValueList_named(f) ==
    IF /\ HasExclude(f)
       /\ Range(f.exclude.data.names) \subseteq Range(f.data.names)
    THEN ExpandExclude(f.exclude.strategy, f.exclude.data.values)
    ELSE <<>>

\* Lines 678-689: the excluded tuples of an exclude entry with both keys.
ExcludeValueList(f) ==
    IF HasExclude(f)
    THEN ExpandExclude(f.exclude.strategy, f.exclude.data.values)
    ELSE <<>>

\* A filter that reads a missing exclude entry as one with no lists.
Remaining_unguarded(f, expanded) ==
    RemoveExcluded(expanded,
                   product(IF HasExclude(f) THEN f.exclude.data.values
                           ELSE <<>>))

\* A filter that runs for any exclude entry with the data key.
Remaining_data_only(f, expanded) ==
    IF "exclude" \in DOMAIN f /\ "data" \in DOMAIN f.exclude
    THEN RemoveExcluded(expanded, product(f.exclude.data.values))
    ELSE expanded

\* Lines 672-702: the filter runs only for an exclude entry with both keys.
Remaining(f, expanded) ==
    IF HasExclude(f)
    THEN RemoveExcluded(expanded, ExcludeValueList(f))
    ELSE expanded

\* A hook that calls parametrize only when rows are left.
Parametrize_nonempty(names, rows, ids) ==
    parametrize_calls' =
        IF rows = <<>> THEN parametrize_calls
        ELSE Append(parametrize_calls,
                    [argnames |-> names, argvalues |-> rows, ids |-> ids])

\* Lines 708-712: metafunc.parametrize(argnames, argvalues, ids).
Parametrize(names, rows, ids) ==
    parametrize_calls' =
        Append(parametrize_calls,
               [argnames |-> names, argvalues |-> rows, ids |-> ids])

\* Lines 623-712: the class/function match, the expansion, the exclusion and
\* the call of metafunc.parametrize.
GenerateClassTest ==
    /\ pc = "loaded"
    /\ IF ClassConditionRaises(data, metafunc)
       THEN /\ Finish(Raise("KeyError"))
            /\ UNCHANGED <<function_data, expanded_value_list,
                           exclude_value_list, argument_value_list,
                           parametrize_calls>>
       ELSE IF ~all(class_condition(data, metafunc))
       THEN /\ Finish(Return)
            /\ UNCHANGED <<function_data, expanded_value_list,
                           exclude_value_list, argument_value_list,
                           parametrize_calls>>
       ELSE LET f == data[module_name][metafunc.cls][metafunc.function] IN
            /\ function_data' = f
            /\ IF "data" \notin DOMAIN f \/ "strategy" \notin DOMAIN f
               THEN /\ Finish(Raise("KeyError"))
                    /\ UNCHANGED <<expanded_value_list, exclude_value_list,
                                   argument_value_list, parametrize_calls>>
               ELSE LET test_data == f.data
                        argument_name_list == test_data.names
                        id_list == None
                        expanded == Expand(f.strategy, test_data.values)
                        exclude_list == ExcludeValueList(f)
                        remaining == Remaining(f, expanded)
                    IN  /\ expanded_value_list' = expanded
                        /\ exclude_value_list' = exclude_list
                        /\ argument_value_list' = remaining
                        /\ Parametrize(argument_name_list, remaining, id_list)
                        /\ Finish(Return)
    /\ UNCHANGED <<fs, metafunc, test_data_path, file_content, data,
                   opened_files, file, mathematics>>

\* A next call that keeps the document of the call before.
NextTestFunction_cached ==
    /\ pc = "done"
    /\ fs' \in FileSystems
    /\ metafunc' \in Metafuncs
    /\ pc' = "next"
    /\ test_data_path' = None
    /\ file_content' = file_content
    /\ data' = data
    /\ function_data' = Unbound
    /\ expanded_value_list' = <<>>
    /\ exclude_value_list' = <<>>
    /\ argument_value_list' = <<>>
    /\ parametrize_calls' = <<>>
    /\ outcome' = Running
    /\ opened_files' = <<>>
    /\ file' = Unbound
    /\ mathematics' = mathematics

\* The framework calls the hook again for the next test function.
NextTestFunction ==
    /\ pc = "done"
    /\ fs' \in FileSystems
    /\ metafunc' \in Metafuncs
    /\ pc' = "next"
    /\ test_data_path' = None
    /\ file_content' = Unbound
    /\ data' = Unbound
    /\ function_data' = Unbound
    /\ expanded_value_list' = <<>>
    /\ exclude_value_list' = <<>>
    /\ argument_value_list' = <<>>
    /\ parametrize_calls' = <<>>
    /\ outcome' = Running
    /\ opened_files' = <<>>
    /\ file' = Unbound
    /\ mathematics' = mathematics

Next ==
    \/ SelectTestDataPath
    \/ RemoveFile
    \/ OpenTestData
    \/ LoadTestData
    \/ GenerateClassTest
    \/ NextTestFunction

Spec == Init /\ [][Next]_vars

-----------------------------------------------------------------------------
\* Mathematics (src/pytest_sandbox/alpha/mathematics.py)

Numbers == (0 - MaxNumber)..MaxNumber

\* An add that subtracts.
add_subtracts(first_number, second_number) == first_number - second_number

\* Mathematics.add
add(first_number, second_number) == first_number + second_number

\* Mathematics.subtract
subtract(first_number, second_number) == first_number - second_number

\* A call of a method: its arguments and what it returns; the attributes of
\* the instance stay as they are.
Call(name, first_number, second_number, result) ==
    /\ mathematics' =
          [method |-> name, first_number |-> first_number,
           second_number |-> second_number, result |-> result,
           attributes |-> mathematics.attributes]
    /\ UNCHANGED hook_vars

Add ==
    \E a \in Numbers, b \in Numbers : Call("add", a, b, add(a, b))

Subtract ==
    \E a \in Numbers, b \in Numbers : Call("subtract", a, b, subtract(a, b))

\* A Mathematics instance, with the hook not running.
MathematicsInit ==
    /\ fs = [f \in {ModuleFile, DataFile} |-> FALSE]
    /\ metafunc = [cls |-> ClassName, function |-> FunctionName]
    /\ pc = "start"
    /\ test_data_path = None
    /\ file_content = Unbound
    /\ data = Unbound
    /\ function_data = Unbound
    /\ expanded_value_list = <<>>
    /\ exclude_value_list = <<>>
    /\ argument_value_list = <<>>
    /\ parametrize_calls = <<>>
    /\ outcome = Running
    /\ opened_files = <<>>
    /\ file = Unbound
    /\ mathematics = Constructed

MathematicsNext == Add \/ Subtract

SpecMathematics == MathematicsInit /\ [][MathematicsNext]_vars

-----------------------------------------------------------------------------
\* Properties

\* The hook has matched the class and the function and has called parametrize.
Generated == pc = "done" /\ Len(parametrize_calls) > 0

\* The hook has read function_data with both of its keys.
HasSpec ==
    /\ function_data # Unbound
    /\ "data" \in DOMAIN function_data
    /\ "strategy" \in DOMAIN function_data

RECURSIVE LengthProduct(_)
LengthProduct(lists) ==
    IF lists = <<>> THEN 1
    ELSE Len(Head(lists)) * LengthProduct(Tail(lists))

\* One position of every list.
PositionChoices(lists) ==
    {c \in [DOMAIN lists -> 1..MaxLen] :
        \A i \in DOMAIN lists : c[i] <= Len(lists[i])}

Pick(lists, c) == [i \in DOMAIN lists |-> lists[i][c[i]]]

Occurrences(rows, t) == Cardinality({k \in DOMAIN rows : rows[k] = t})

\* rows is the positional pairing of lists, cut at the shortest list.
IsPairing(rows, lists) ==
    /\ lists = <<>> => rows = <<>>
    /\ lists # <<>> =>
          /\ \A j \in DOMAIN lists : Len(rows) <= Len(lists[j])
          /\ \E j \in DOMAIN lists : Len(rows) = Len(lists[j])
          /\ \A i \in DOMAIN rows :
                rows[i] = [j \in DOMAIN lists |-> lists[j][i]]

\* C1: under strategy "product" the expansion has as many tuples as the
\* product of the lengths of the argument lists, none when a list is empty,
\* and every choice of one position per argument occurs exactly once (a tuple
\* of values occurs as often as there are choices of positions that give it).
C1_ProductSize ==
    (Generated /\ function_data.strategy = "product") =>
        LET lists == function_data.data.values
            choices == PositionChoices(lists)
        IN  /\ Len(expanded_value_list) = LengthProduct(lists)
            /\ Len(expanded_value_list) = Cardinality(choices)
            /\ (\E i \in DOMAIN lists : lists[i] = <<>>)
                  => expanded_value_list = <<>>
            /\ \A c \in choices :
                  Occurrences(expanded_value_list, Pick(lists, c)) =
                      Cardinality({d \in choices :
                                      Pick(lists, d) = Pick(lists, c)})

C1_Witness ==
    /\ Generated
    /\ function_data.strategy = "product"
    /\ function_data.data.values = << <<1, 1>>, <<1, 2>> >>
    /\ Len(expanded_value_list) = 4

\* C2: under strategy "product" the tuples come in nested-loop order, the
\* right-most argument varying fastest, and position i of every tuple holds a
\* value of the i-th argument name handed to parametrize;
\* {x:[1,2], y:[10,20]} gives [(1,10),(1,20),(2,10),(2,20)].
C2_ProductOrder ==
    /\ product(<< <<1, 2>>, <<10, 20>> >>) =
          << <<1, 10>>, <<1, 20>>, <<2, 10>>, <<2, 20>> >>
    /\ (Generated /\ function_data.strategy = "product") =>
          LET lists == function_data.data.values
              n == Len(lists)
              Stride(i) == LengthProduct(SubSeq(lists, i + 1, n))
          IN  /\ parametrize_calls[1].argnames = function_data.data.names
              /\ Len(function_data.data.names) = n
              /\ \A k \in DOMAIN expanded_value_list :
                    /\ DOMAIN expanded_value_list[k] = 1..n
                    /\ \A i \in 1..n :
                          expanded_value_list[k][i] =
                              lists[i][(((k - 1) \div Stride(i))
                                            % Len(lists[i])) + 1]

C2_Witness ==
    /\ Generated
    /\ function_data.strategy = "product"
    /\ function_data.data.values = << <<1, 2>>, <<2, 1>> >>
    /\ expanded_value_list = << <<1, 2>>, <<1, 1>>, <<2, 2>>, <<2, 1>> >>

\* C3: under strategy "zip" with argument lists of one common length k the
\* expansion has k tuples and tuple i holds the i-th element of every list in
\* the order of the argument names; {x:[1,2], y:[10,20]} gives [(1,10),(2,20)].
C3_ZipEqualLength ==
    /\ zip(<< <<1, 2>>, <<10, 20>> >>) = << <<1, 10>>, <<2, 20>> >>
    /\ (/\ Generated
        /\ function_data.strategy = "zip"
        /\ function_data.data.values # <<>>
        /\ \A i, j \in DOMAIN function_data.data.values :
              Len(function_data.data.values[i]) =
                  Len(function_data.data.values[j])) =>
          LET lists == function_data.data.values IN
              /\ Len(expanded_value_list) = Len(lists[1])
              /\ \A i \in DOMAIN expanded_value_list :
                    expanded_value_list[i] =
                        [j \in DOMAIN lists |-> lists[j][i]]

C3_Witness ==
    /\ Generated
    /\ function_data.strategy = "zip"
    /\ function_data.data.values = << <<1, 2>>, <<2, 1>> >>
    /\ expanded_value_list = << <<1, 2>>, <<2, 1>> >>

\* C4: with an exclude entry, an expanded tuple is absent from the rows handed
\* to parametrize exactly when the values of some excluded tuple all occur
\* among its values, and every row is an expanded tuple; the product of
\* {x:[1,2], y:[10,20]} with exclude {x:[1]} leaves [(2,10),(2,20)].
C4_ExclusionSubsetLaw ==
    /\ RemoveExcluded(product(<< <<1, 2>>, <<10, 20>> >>),
                      product(<< <<1>> >>)) = << <<2, 10>>, <<2, 20>> >>
    /\ (Generated /\ HasExclude(function_data)) =>
          LET rows == parametrize_calls[1].argvalues
              Matches(t) ==
                  \E k \in DOMAIN exclude_value_list :
                      Range(exclude_value_list[k]) \subseteq Range(t)
          IN  /\ \A k \in DOMAIN expanded_value_list :
                    Occurrences(rows, expanded_value_list[k]) = 0
                        <=> Matches(expanded_value_list[k])
              /\ \A r \in DOMAIN rows :
                    Occurrences(expanded_value_list, rows[r]) > 0

C4_Witness ==
    /\ Generated
    /\ HasExclude(function_data)
    /\ function_data.strategy = "product"
    /\ function_data.data.values = << <<1, 2>>, <<1, 2>> >>
    /\ function_data.exclude.data.values = << <<1, 2>>, <<2>> >>
    /\ parametrize_calls[1].argvalues = << <<1, 1>> >>

\* C5: when neither <module_name>.json nor data.json exists, the hook ends
\* with a skip.
C5_NoDataSkip ==
    (/\ pc = "done"
     /\ test_data_path = None
     /\ ~fs[ModuleFile]
     /\ ~fs[DataFile]) => outcome.kind = "skip"

\* C6: when the opened file holds content that is no JSON, the hook ends with
\* a skip and no exception leaves it.
C6_UnparsableSkip ==
    (pc = "done" /\ file_content = Malformed) => outcome.kind = "skip"

\* C7: for a test of a class, when the loaded data lacks the module name, the
\* class name under the module or the function name under the class, the hook
\* returns without a call of parametrize, without a skip and without an error.
C7_SpecMismatchSilent ==
    (/\ pc = "done"
     /\ metafunc.cls # None
     /\ data # Unbound
     /\ \/ module_name \notin DOMAIN data
        \/ metafunc.cls \notin DOMAIN data[module_name]
        \/ metafunc.function \notin DOMAIN data[module_name][metafunc.cls]) =>
        /\ outcome = Return
        /\ parametrize_calls = <<>>

\* C8: a matched spec without the strategy key is expanded as by zip and
\* parametrized; no error ends the hook.
C8_AbsentStrategyIsZip ==
    (/\ pc = "done"
     /\ function_data # Unbound
     /\ "data" \in DOMAIN function_data
     /\ "strategy" \notin DOMAIN function_data) =>
        /\ outcome = Return
        /\ Len(parametrize_calls) = 1
        /\ IsPairing(expanded_value_list, function_data.data.values)

\* C9: a matched spec whose strategy is any value but "product" is expanded
\* as by zip, and the hook ends by a return after one call of parametrize,
\* with neither an error nor a skip.
C9_UnrecognizedStrategyIsZip ==
    (pc = "done" /\ HasSpec /\ function_data.strategy # "product") =>
        /\ outcome = Return
        /\ Len(parametrize_calls) = 1
        /\ IsPairing(expanded_value_list, function_data.data.values)

C9_Witness ==
    /\ Generated
    /\ function_data.strategy = "bogus"
    /\ function_data.data.values = << <<2, 1>>, <<1, 1>> >>
    /\ expanded_value_list = << <<2, 1>>, <<1, 1>> >>

\* C10: a test function outside a class whose name has an entry under its
\* module name in the data is parametrized from that entry.
C10_FreeFunctionParametrized ==
    (/\ pc = "done"
     /\ metafunc.cls = None
     /\ data # Unbound
     /\ module_name \in DOMAIN data
     /\ metafunc.function \in DOMAIN data[module_name]) =>
        /\ Len(parametrize_calls) = 1
        /\ parametrize_calls[1].argnames =
              data[module_name][metafunc.function].data.names

\* rows is the cartesian product of lists in nested-loop order, the last
\* list varying fastest.
IsNestedLoop(rows, lists) ==
    /\ Len(rows) = LengthProduct(lists)
    /\ \A k \in DOMAIN rows :
          /\ DOMAIN rows[k] = DOMAIN lists
          /\ \A i \in DOMAIN lists :
                rows[k][i] =
                    lists[i][(((k - 1)
                                 \div LengthProduct(SubSeq(lists, i + 1,
                                                           Len(lists))))
                                 % Len(lists[i])) + 1]

\* C11: the excluded tuples are the expansion of the exclude entry under its
\* own strategy: the cartesian product for "product", the positional pairing
\* of the exclude lists for "zip" and any other value.
C11_ExcludeOwnStrategy ==
    (Generated /\ HasExclude(function_data)) =>
        IF function_data.exclude.strategy = "product"
        THEN IsNestedLoop(exclude_value_list,
                          function_data.exclude.data.values)
        ELSE IsPairing(exclude_value_list, function_data.exclude.data.values)

\* C12: when both <module_name>.json and data.json exist at the existence
\* check, the per-module file is selected; data.json is selected only when the
\* per-module file does not exist; and the file that is opened and read is the
\* selected one.
C12_ResolutionOrder ==
    [][/\ (pc \in {"start", "next"} /\ pc' = "selected") =>
              /\ (fs[ModuleFile] /\ fs[DataFile])
                    => test_data_path' = ModuleFile
              /\ test_data_path' = DataFile
                    => (~fs[ModuleFile] /\ fs[DataFile])
       /\ (pc = "selected" /\ opened_files' # opened_files) =>
              opened_files' = <<test_data_path>>
       /\ (pc = "opened" /\ file_content' # file_content) =>
              opened_files = <<test_data_path>>]_vars

C12_Witness ==
    /\ pc = "loaded"
    /\ fs[ModuleFile]
    /\ fs[DataFile]
    /\ test_data_path = ModuleFile
    /\ opened_files = <<ModuleFile>>
    /\ data = file_content

\* s can be had from t by leaving elements out.
RECURSIVE IsSubsequence(_, _)
IsSubsequence(s, t) ==
    IF s = <<>> THEN TRUE
    ELSE IF t = <<>> THEN FALSE
    ELSE IF Head(s) = Head(t) THEN IsSubsequence(Tail(s), Tail(t))
    ELSE IsSubsequence(s, Tail(t))

\* C13: the rows handed to parametrize are a subsequence of the expansion:
\* every survivor is an expanded tuple and survivors keep their order.
C13_FilterStable ==
    Generated =>
        IsSubsequence(parametrize_calls[1].argvalues, expanded_value_list)

C13_Witness ==
    /\ Generated
    /\ HasExclude(function_data)
    /\ expanded_value_list = << <<1, 1>>, <<1, 2>>, <<2, 1>>, <<2, 2>> >>
    /\ parametrize_calls[1].argvalues = << <<1, 1>>, <<2, 2>> >>

\* C14: without an exclude entry the rows handed to parametrize are the
\* expansion, the same tuples in the same order.
C14_NoExcludePassThrough ==
    (Generated /\ "exclude" \notin DOMAIN function_data) =>
        /\ parametrize_calls[1].argvalues = expanded_value_list
        /\ argument_value_list = expanded_value_list

C14_Witness ==
    /\ Generated
    /\ "exclude" \notin DOMAIN function_data
    /\ function_data.data.values = << <<1, 2>>, <<2, 1>> >>
    /\ parametrize_calls[1].argvalues =
          << <<1, 2>>, <<1, 1>>, <<2, 2>>, <<2, 1>> >>

\* C15: for a test of a class whose module, class and function have entries
\* in the data, the entry naming its arguments, parametrize is called exactly
\* once, with the argument names of the entry in their order, the surviving
\* rows and no ids; and no invocation calls parametrize more than once.
C15_EmitOnce ==
    /\ Len(parametrize_calls) <= 1
    /\ (/\ pc = "done"
        /\ metafunc.cls # None
        /\ data # Unbound
        /\ module_name \in DOMAIN data
        /\ metafunc.cls \in DOMAIN data[module_name]
        /\ metafunc.function \in DOMAIN data[module_name][metafunc.cls]
        /\ "data" \in
              DOMAIN data[module_name][metafunc.cls][metafunc.function]) =>
          /\ Len(parametrize_calls) = 1
          /\ parametrize_calls[1] =
                [argnames |->
                     data[module_name][metafunc.cls][metafunc.function]
                         .data.names,
                 argvalues |-> argument_value_list,
                 ids |-> None]

\* C17: a later invocation starts with every local of the hook unassigned,
\* no call of parametrize and no file opened, so nothing of an earlier
\* invocation reaches it; and whenever an invocation holds a document it has
\* opened its selected file itself, once, and the document is what that file
\* held.
C17_NoStateBetweenInvocations ==
    /\ pc = "next" =>
          /\ test_data_path = None
          /\ file_content = Unbound
          /\ data = Unbound
          /\ function_data = Unbound
          /\ expanded_value_list = <<>>
          /\ exclude_value_list = <<>>
          /\ argument_value_list = <<>>
          /\ parametrize_calls = <<>>
          /\ opened_files = <<>>
          /\ outcome = Running
    /\ data # Unbound =>
          /\ pc \in {"loaded", "done"}
          /\ opened_files = <<test_data_path>>
          /\ data = file_content
    /\ Len(opened_files) <= 1

C17_Witness ==
    /\ pc = "next"
    /\ fs[ModuleFile]
    /\ metafunc.cls = ClassName

\* C18: add returns the sum and subtract the difference of its arguments,
\* negative ones included (add(1,2) = 3, add(-1,1) = 0, subtract(5,3) = 2),
\* and no call changes an attribute of the instance.
C18_Arithmetic ==
    /\ add(1, 2) = 3
    /\ add(0 - 1, 1) = 0
    /\ subtract(5, 3) = 2
    /\ mathematics.method = "add" =>
          mathematics.result =
              mathematics.first_number + mathematics.second_number
    /\ mathematics.method = "subtract" =>
          mathematics.result + mathematics.second_number =
              mathematics.first_number
    /\ mathematics.attributes = Constructed.attributes

C18_Witness ==
    /\ mathematics.method = "add"
    /\ mathematics.first_number = 0 - 1
    /\ mathematics.second_number = 1
    /\ mathematics.result = 0

\* C19: under strategy "zip" with argument lists of unequal lengths the hook
\* raises nothing, the expansion has as many tuples as the shortest list has
\* values, and tuple i holds the i-th value of every list: no value beyond
\* that length is in a row.
C19_ZipTruncates ==
    (/\ pc = "done"
     /\ HasSpec
     /\ function_data.strategy = "zip"
     /\ \E i, j \in DOMAIN function_data.data.values :
           Len(function_data.data.values[i]) #
               Len(function_data.data.values[j])) =>
        LET lists == function_data.data.values IN
            /\ outcome = Return
            /\ Len(parametrize_calls) = 1
            /\ \A j \in DOMAIN lists : Len(expanded_value_list) <= Len(lists[j])
            /\ \E j \in DOMAIN lists : Len(expanded_value_list) = Len(lists[j])
            /\ \A i \in DOMAIN expanded_value_list :
                  /\ DOMAIN expanded_value_list[i] = DOMAIN lists
                  /\ \A j \in DOMAIN lists :
                        expanded_value_list[i][j] = lists[j][i]

C19_Witness ==
    /\ Generated
    /\ function_data.strategy = "zip"
    /\ function_data.data.values = << <<1, 2>>, <<2>> >>
    /\ expanded_value_list = << <<1, 2>> >>

\* C20: an excluded tuple removes every expanded tuple in which each of its
\* values occurs at some position, whichever argument that position belongs
\* to; the product of {x:[1,2], y:[1,2]} with exclude {x:[1]} keeps (2,2) only.
C20_ExclusionIgnoresPositions ==
    /\ RemoveExcluded(product(<< <<1, 2>>, <<1, 2>> >>),
                      product(<< <<1>> >>)) = << <<2, 2>> >>
    /\ (Generated /\ HasExclude(function_data)) =>
          \A k \in DOMAIN expanded_value_list :
              \A e \in DOMAIN exclude_value_list :
                  (\A q \in DOMAIN exclude_value_list[e] :
                      \E p \in DOMAIN expanded_value_list[k] :
                          expanded_value_list[k][p] =
                              exclude_value_list[e][q])
                      => Occurrences(parametrize_calls[1].argvalues,
                                     expanded_value_list[k]) = 0

C20_Witness ==
    /\ Generated
    /\ function_data.strategy = "product"
    /\ function_data.data.values = << <<1, 2>>, <<1, 2>> >>
    /\ HasExclude(function_data)
    /\ function_data.exclude.data.values = << <<1>> >>
    /\ parametrize_calls[1].argvalues = << <<2, 2>> >>

\* C21: equal tuples of the expansion are not merged: every copy that no
\* excluded tuple matches is a row of its own, so the rows are as many as the
\* expanded tuples less the matched ones, each copy counted.
C21_DuplicatesPreserved ==
    Generated =>
        LET rows == parametrize_calls[1].argvalues
            Matches(t) ==
                /\ HasExclude(function_data)
                /\ \E k \in DOMAIN exclude_value_list :
                      Range(exclude_value_list[k]) \subseteq Range(t)
            matched == {k \in DOMAIN expanded_value_list :
                           Matches(expanded_value_list[k])}
        IN  /\ Len(rows) = Len(expanded_value_list) - Cardinality(matched)
            /\ \A k \in DOMAIN expanded_value_list :
                  ~Matches(expanded_value_list[k]) =>
                      Occurrences(rows, expanded_value_list[k]) =
                          Occurrences(expanded_value_list,
                                      expanded_value_list[k])

C21_Witness ==
    /\ Generated
    /\ HasExclude(function_data)
    /\ function_data.strategy = "product"
    /\ function_data.data.values = << <<1, 1>>, <<1, 2>> >>
    /\ function_data.exclude.data.values = << <<2>> >>
    /\ expanded_value_list = << <<1, 1>>, <<1, 2>>, <<1, 1>>, <<1, 2>> >>
    /\ parametrize_calls[1].argvalues = << <<1, 1>>, <<1, 1>> >>

\* C22: the file is open only between the open and the end of the with
\* statement, while nothing is parsed, matched, expanded or emitted; once
\* the hook holds a document the file is closed and the document is all the
\* file held; the match, the expansion, the filter and parametrize run after
\* that; and no file is left open when the hook ends, by a skip or otherwise.
C22_FileClosedBeforeExpansion ==
    /\ (file # Unbound /\ ~file.closed) =>
          /\ pc = "opened"
          /\ data = Unbound
          /\ function_data = Unbound
          /\ expanded_value_list = <<>>
          /\ exclude_value_list = <<>>
          /\ argument_value_list = <<>>
          /\ parametrize_calls = <<>>
    /\ data # Unbound =>
          /\ file = [closed |-> TRUE]
          /\ data = file_content
    /\ (function_data # Unbound \/ parametrize_calls # <<>>) =>
          /\ data # Unbound
          /\ file = [closed |-> TRUE]
    /\ pc \in {"loaded", "done"} => file \in {Unbound, [closed |-> TRUE]}
    /\ outcome.kind = "skip" => file \in {Unbound, [closed |-> TRUE]}

C22_Witness ==
    /\ Generated
    /\ opened_files = <<test_data_path>>
    /\ file = [closed |-> TRUE]
    /\ expanded_value_list # <<>>

\* C23: an exclude entry with both keys and an empty argument mapping gives,
\* whatever its strategy, the one empty excluded tuple; the empty tuple
\* matches every expanded tuple, so parametrize is called with no rows.
C23_EmptyExcludeRemovesAll ==
    (/\ Generated
     /\ HasExclude(function_data)
     /\ function_data.exclude.data.values = <<>>) =>
        /\ exclude_value_list = << <<>> >>
        /\ \A k \in DOMAIN expanded_value_list :
              Range(exclude_value_list[1]) \subseteq
                  Range(expanded_value_list[k])
        /\ Len(parametrize_calls) = 1
        /\ parametrize_calls[1].argvalues = <<>>
        /\ outcome = Return

C23_Witness ==
    /\ Generated
    /\ function_data.strategy = "product"
    /\ function_data.data.values = << <<1, 2>>, <<2, 1>> >>
    /\ HasExclude(function_data)
    /\ function_data.exclude.strategy = "zip"
    /\ function_data.exclude.data.values = <<>>
    /\ Len(expanded_value_list) = 4
    /\ parametrize_calls[1].argvalues = <<>>

\* C24: an exclude entry without its strategy key or without its data key
\* is passed over: the hook returns, nothing is excluded and the rows handed
\* to parametrize are the expansion.
C24_PartialExcludeIgnored ==
    (/\ pc = "done"
     /\ HasSpec
     /\ "exclude" \in DOMAIN function_data
     /\ \/ "strategy" \notin DOMAIN function_data.exclude
        \/ "data" \notin DOMAIN function_data.exclude) =>
        /\ outcome = Return
        /\ exclude_value_list = <<>>
        /\ Len(parametrize_calls) = 1
        /\ parametrize_calls[1].argvalues = expanded_value_list
        /\ parametrize_calls[1].argvalues =
              Expand(function_data.strategy, function_data.data.values)

C24_Witness ==
    /\ Generated
    /\ function_data.strategy = "product"
    /\ function_data.data.values = << <<1, 2>>, <<1, 2>> >>
    /\ "exclude" \in DOMAIN function_data
    /\ "strategy" \notin DOMAIN function_data.exclude
    /\ function_data.exclude.data.values = << <<1>> >>
    /\ parametrize_calls[1].argvalues =
          << <<1, 1>>, <<1, 2>>, <<2, 1>>, <<2, 2>> >>

\* The loaded document has no entry of the test: for a test of a class the
\* module, the class or the function is missing, for a free function the
\* module or the function.
NoEntry ==
    \/ module_name \notin DOMAIN data
    \/ /\ metafunc.cls # None
       /\ \/ metafunc.cls \notin DOMAIN data[module_name]
          \/ metafunc.function \notin DOMAIN data[module_name][metafunc.cls]
    \/ /\ metafunc.cls = None
       /\ metafunc.function \notin DOMAIN data[module_name]

\* C25: once <module_name>.json is selected, data.json is never opened; when
\* the per-module file holds no entry of the test, the hook ends having
\* opened the per-module file only and without a call of parametrize, whether
\* or not data.json exists.
C25_NoFallback ==
    /\ test_data_path = ModuleFile => DataFile \notin Range(opened_files)
    /\ (/\ pc = "done"
        /\ test_data_path = ModuleFile
        /\ data # Unbound
        /\ NoEntry) =>
          /\ opened_files = <<ModuleFile>>
          /\ data = file_content
          /\ function_data = Unbound
          /\ parametrize_calls = <<>>

C25_Witness ==
    /\ pc = "done"
    /\ fs[ModuleFile]
    /\ fs[DataFile]
    /\ test_data_path = ModuleFile
    /\ metafunc.cls = ClassName
    /\ data = (module_name :> (ClassName :> EmptyObject))
    /\ opened_files = <<ModuleFile>>
    /\ outcome = Return
    /\ parametrize_calls = <<>>

\* The sequences of n different names, argument names or not.
Namings(n) ==
    {names \in [1..n -> Range(ArgNames) \cup Range(OtherNames)] :
        \A i, j \in 1..n : i # j => names[i] # names[j]}

\* C26: the rows depend on the lists of the exclude entry in the order of
\* its keys and not on the keys: the same entry under any other names,
\* argument names of the spec or not, gives the rows that were emitted, and
\* an entry whose names are no argument names of the spec is applied like
\* any other, the hook returning.
C26_ExcludeNamesIrrelevant ==
    (Generated /\ HasExclude(function_data)) =>
        LET rows == parametrize_calls[1].argvalues
            lists == function_data.exclude.data.values
        IN  /\ outcome = Return
            /\ \A names \in Namings(Len(lists)) :
                  Remaining([function_data EXCEPT !.exclude.data.names = names],
                            expanded_value_list) = rows
            /\ \A k \in DOMAIN expanded_value_list :
                  (\A i \in DOMAIN lists : lists[i] # <<>>)
                      => (Occurrences(rows, expanded_value_list[k]) = 0
                            <=> \E c \in PositionChoices(lists) :
                                   Range(Pick(lists, c)) \subseteq
                                       Range(expanded_value_list[k]))

C26_Witness ==
    /\ Generated
    /\ function_data.strategy = "product"
    /\ function_data.data.names = <<"x", "y">>
    /\ function_data.data.values = << <<1, 2>>, <<1, 2>> >>
    /\ HasExclude(function_data)
    /\ function_data.exclude.data.names = <<"z">>
    /\ function_data.exclude.data.values = << <<1>> >>
    /\ parametrize_calls[1].argvalues = << <<2, 2>> >>

\* The first n elements of s.
Prefix(s, n) == SubSeq(s, 1, n)

\* C27: the filter applied again to the emitted rows with the same excluded
\* tuples removes nothing; and with more excluded tuples no removed row comes
\* back: the emitted rows are a subsequence of the survivors under any
\* shorter list of the excluded tuples, and the survivors under a list made
\* longer by one tuple are a subsequence of the emitted rows.
C27_FilterIdempotentMonotone ==
    (Generated /\ HasExclude(function_data)) =>
        LET rows == parametrize_calls[1].argvalues IN
            /\ RemoveExcluded(rows, exclude_value_list) = rows
            /\ \A n \in 0..Len(exclude_value_list) :
                  /\ IsSubsequence(rows,
                          RemoveExcluded(expanded_value_list,
                                         Prefix(exclude_value_list, n)))
                  /\ RemoveExcluded(
                          RemoveExcluded(expanded_value_list,
                                         Prefix(exclude_value_list, n)),
                          exclude_value_list) = rows
            /\ \A t \in {<<>>} \cup {<<v>> : v \in Values} :
                  IsSubsequence(
                      RemoveExcluded(expanded_value_list,
                                     Append(exclude_value_list, t)),
                      rows)

C27_Witness ==
    /\ Generated
    /\ HasExclude(function_data)
    /\ expanded_value_list = << <<1, 1>>, <<1, 2>>, <<2, 1>>, <<2, 2>> >>
    /\ exclude_value_list = << <<1, 2>>, <<2, 2>> >>
    /\ RemoveExcluded(expanded_value_list, Prefix(exclude_value_list, 1)) =
          << <<1, 1>>, <<2, 2>> >>
    /\ parametrize_calls[1].argvalues = << <<1, 1>> >>

C29_VanishedFileSkips ==
    (/\ pc \notin {"start", "next", "selected"}
     /\ test_data_path # None
     /\ ~fs[test_data_path]) =>
        /\ pc = "done"
        /\ outcome = Skip("Skip No Test Data Found")
        /\ opened_files = <<test_data_path>>
        /\ file = Unbound
        /\ file_content = Unbound
        /\ data = Unbound
        /\ function_data = Unbound
        /\ expanded_value_list = <<>>
        /\ exclude_value_list = <<>>
        /\ argument_value_list = <<>>
        /\ parametrize_calls = <<>>

C29_Witness ==
    /\ pc = "done"
    /\ test_data_path = ModuleFile
    /\ ~fs[ModuleFile]
    /\ fs[DataFile]
    /\ opened_files = <<ModuleFile>>
    /\ outcome = Skip("Skip No Test Data Found")

\* C30: of an empty argument mapping "product" makes one tuple, the empty
\* one, and "zip" or any other strategy makes none.
C30_EmptyArgumentMapping ==
    /\ product(<<>>) = << <<>> >>
    /\ zip(<<>>) = <<>>
    /\ (Generated /\ function_data.data.values = <<>>) =>
          /\ parametrize_calls[1].argnames = <<>>
          /\ function_data.strategy = "product" =>
                /\ Len(expanded_value_list) = 1
                /\ expanded_value_list[1] = <<>>
          /\ function_data.strategy # "product" =>
                Len(expanded_value_list) = 0

C30_Witness ==
    /\ Generated
    /\ function_data.strategy = "product"
    /\ function_data.data.values = <<>>
    /\ "exclude" \notin DOMAIN function_data
    /\ parametrize_calls[1].argvalues = << <<>> >>

====
